---- MODULE Spec2Model ----
(***************************************************************************)
(* A model of server/scripts/generateArticles.js: the one-shot content     *)
(* pipeline that reads source.json, writes one HTML page per new item and  *)
(* rewrites public/data/articles.json.                                     *)
(*                                                                         *)
(* Strings are sequences of one-character strings, so that slugify, the    *)
(* excerpt slice and the template interpolation are computed, not assumed. *)
(* A code point outside ASCII is written by its name ("U+00E9").           *)
(***************************************************************************)
EXTENDS Integers, Sequences, FiniteSets, TLC

VARIABLES
    sourceFile,    \* server/data/source.json on disk
    indexFile,     \* public/data/articles.json on disk
    articleFiles,  \* public/articles/: file name -> interpolated parts of the page
    dirs,          \* which output directories exist
    pc,            \* position of the script
    src,           \* the parsed configuration (line 119)
    articlesList,  \* the accumulated in-memory list (line 130)
    ci,            \* index of the category the outer loop is at
    ii,            \* index of the item the inner loop is at
    log,           \* console output of the running process
    exitCode,      \* exit status of the process, -1 while none
    now,           \* the clock: what the latest Date.now() returned
    runs,          \* number of processes started so far
    indexUndo,     \* history: what indexFile held before the process wrote it
    filesUndo,     \* history: the article files the process created, and what it overwrote
    dirsAtStart,   \* history: dirs when the process started
    sourceCreated, \* history: the process has created source.json (line 115)
    prevDone,      \* history: the previous process exited 0 and source.json was not edited since
    indexWrites,   \* history: writes of the index file by the running process
    probe          \* the title handed to slugify and its result (slugify on its own)

vars == <<sourceFile, indexFile, articleFiles, dirs, pc, src, articlesList, ci, ii,
          log, exitCode, now, runs, indexUndo, filesUndo, dirsAtStart,
          sourceCreated, prevDone, indexWrites, probe>>

pipelineVars == <<sourceFile, indexFile, articleFiles, dirs, pc, src, articlesList, ci, ii,
                  log, exitCode, now, runs, indexUndo, filesUndo, dirsAtStart,
                  sourceCreated, prevDone, indexWrites>>

(***************************************************************************)
(* Bounds.                                                                 *)
(***************************************************************************)
MaxRuns == 2
MaxClock == 1
MaxTitleLen == 4

(***************************************************************************)
(* Characters.                                                             *)
(***************************************************************************)
UpperLetters == <<"A","B","C","D","E","F","G","H","I","J","K","L","M","N","O","P","Q","R","S","T","U","V","W","X","Y","Z">>
LowerLetters == <<"a","b","c","d","e","f","g","h","i","j","k","l","m","n","o","p","q","r","s","t","u","v","w","x","y","z">>
Digits == <<"0","1","2","3","4","5","6","7","8","9">>

Range(f) == {f[i] : i \in DOMAIN f}

\* \w of a JavaScript regular expression without the u flag: [A-Za-z0-9_]
WordChars == Range(UpperLetters) \cup Range(LowerLetters) \cup Range(Digits) \cup {"_"}
\* \s, as far as the titles of this model go
SpaceChars == {" ", "\t"}

\* String.prototype.toLowerCase on one character
LowerChar(c) ==
    IF c \in Range(UpperLetters)
    THEN LowerLetters[CHOOSE i \in DOMAIN UpperLetters : UpperLetters[i] = c]
    ELSE IF c = "U+00C9" THEN "U+00E9" ELSE c

toLowerCase(s) == [i \in 1..Len(s) |-> LowerChar(s[i])]

\* .replace(/[^\w\s-]/g, '')
KeptByClass(c) == c \in WordChars \cup SpaceChars \cup {"-"}
stripOther(s) == SelectSeq(s, KeptByClass)

\* .trim()
RECURSIVE trimStart(_)
trimStart(s) == IF s # <<>> /\ Head(s) \in SpaceChars THEN trimStart(Tail(s)) ELSE s
RECURSIVE trimEnd(_)
trimEnd(s) ==
    IF s # <<>> /\ s[Len(s)] \in SpaceChars THEN trimEnd(SubSeq(s, 1, Len(s) - 1)) ELSE s
trim(s) == trimEnd(trimStart(s))

\* .replace(/X+/g, '-') for a class X of characters: every maximal run becomes one hyphen
RECURSIVE runsToHyphen(_, _)
runsToHyphen(s, class) ==
    IF s = <<>> THEN <<>>
    ELSE IF Head(s) \in class
         THEN IF Len(s) > 1 /\ s[2] \in class
              THEN runsToHyphen(Tail(s), class)
              ELSE <<"-">> \o runsToHyphen(Tail(s), class)
         ELSE <<Head(s)>> \o runsToHyphen(Tail(s), class)

\* slugify with the trim left out
slugifyNoTrim(s) ==
    runsToHyphen(runsToHyphen(stripOther(toLowerCase(s)), SpaceChars), {"-"})

slugify(s) ==
    runsToHyphen(runsToHyphen(trim(stripOther(toLowerCase(s))), SpaceChars), {"-"})

(***************************************************************************)
(* slugify on its own: every title over a small alphabet, and the titles   *)
(* the documentation names.                                                *)
(***************************************************************************)
Alphabet == {"A", "b", "7", "_", " ", "\t", "-", "!", "U+00E9"}

CheapChickenRice == <<"C","h","e","a","p"," ","C","h","i","c","k","e","n"," ","R","i","c","e">>
BeansAndPasta == <<"B","e","a","n","s"," ","&"," ","P","a","s","t","a","!">>

TitlesUpTo(n) == UNION {[1..k -> Alphabet] : k \in 0..n}
ProbeTitles == TitlesUpTo(MaxTitleLen) \cup {CheapChickenRice, BeansAndPasta}

NoProbe == [state |-> "none", title |-> <<>>, slug |-> <<>>]

(***************************************************************************)
(* JSON values, as far as the script looks into them.                      *)
(***************************************************************************)
Missing == [t |-> "missing", v |-> <<>>]      \* the property is not there (undefined)
Num == [t |-> "number", v |-> <<>>]           \* a non-zero number: truthy, not iterable
Arr(s) == [t |-> "array", v |-> s]
Str(s) == [t |-> "string", v |-> s]
NullItem == [t |-> "null", v |-> <<>>]

CatObj(name, items) == [t |-> "object", name |-> name, items |-> items]
NullCat == [t |-> "null", name |-> <<>>, items |-> Missing]

CfgObj(domain, cats) == [t |-> "object", domain |-> domain, categories |-> cats]
NullCfg == [t |-> "null", domain |-> <<>>, categories |-> Missing]

TunaWrap == <<"T","u","n","a"," ","W","r","a","p">>
TunaWrapLoud == <<"t","u","n","a"," "," ","w","r","a","p","!">>
BeansPasta == <<"B","e","a","n","s"," ","P","a","s","t","a">>
EggsOnToast == <<"E","g","g","s"," ","o","n"," ","T","o","a","s","t">>
BudgetChili == <<"B","u","d","g","e","t"," ","C","h","i","l","i">>
BudgetCooking == <<"B","u","d","g","e","t"," ","C","o","o","k","i","n","g">>
Quick == <<"Q","u","i","c","k">>
General == <<"G","e","n","e","r","a","l">>
PlateUpDomain == <<"h","t","t","p","s",":","/","/","p","l","a","t","e","u","p",".","p","r","o">>

\* lines 100-114
defaultSrc ==
    CfgObj(PlateUpDomain,
           Arr(<<CatObj(BudgetCooking,
                        Arr(<<Str(CheapChickenRice), Str(BeansPasta), Str(EggsOnToast),
                              Str(BudgetChili), Str(TunaWrap)>>))>>))

\* The configurations source.json is given in this model.
CfgA == CfgObj(<<>>, Arr(<<CatObj(Quick, Arr(<<Str(TunaWrap)>>))>>))
CfgDup ==
    CfgObj(PlateUpDomain,
           Arr(<<CatObj(Quick, Arr(<<Str(TunaWrap)>>)),
                 CatObj(<<>>, Missing),
                 CatObj(<<>>, Arr(<<Str(TunaWrap), Str(TunaWrapLoud), Str(BeansAndPasta)>>))>>))
CfgEmpty == CfgObj(PlateUpDomain, Arr(<<>>))
CfgNoCats == CfgObj(<<>>, Missing)
CfgNullItem == CfgObj(<<>>, Arr(<<CatObj(Quick, Arr(<<Str(BeansAndPasta), NullItem>>))>>))
CfgNullCat == CfgObj(<<>>, Arr(<<NullCat>>))
CfgBadCats == CfgObj(<<>>, Num)
CfgBadItems == CfgObj(<<>>, Arr(<<CatObj(Quick, Num)>>))

Configs == {NullCfg, CfgA, CfgDup, CfgEmpty, CfgNoCats, CfgNullItem, CfgNullCat,
            CfgBadCats, CfgBadItems}

SourceAbsent == [kind |-> "absent", val |-> NullCfg]
SourceGarbage == [kind |-> "unparsable", val |-> NullCfg]
SourceJson(c) == [kind |-> "json", val |-> c]
SourceStates == {SourceAbsent, SourceGarbage} \cup {SourceJson(c) : c \in Configs}

\* JSON.parse(fs.readFileSync(SOURCE, 'utf8')), lines 120-125: the value, or the throw
\* a parse that falls back on the default configuration instead of throwing
parseSourceLenient(file) ==
    IF file.kind = "json" THEN [ok |-> TRUE, val |-> file.val]
    ELSE [ok |-> TRUE, val |-> defaultSrc]

parseSource(file) ==
    IF file.kind = "json" THEN [ok |-> TRUE, val |-> file.val]
    ELSE [ok |-> FALSE, val |-> NullCfg]

\* the default categories standing in for a missing or an empty array
categoriesOrDefault(cfg) ==
    IF cfg.categories.t = "missing" \/ cfg.categories = Arr(<<>>)
    THEN defaultSrc.categories ELSE cfg.categories

\* line 128: src.categories || []
categoriesOf(cfg) == IF cfg.categories.t = "missing" THEN Arr(<<>>) ELSE cfg.categories

\* line 142: cat.name || "General"
catNameOf(cat) == IF cat.name = <<>> THEN General ELSE cat.name

\* line 143: cat.items || []
itemsOf(cat) == IF cat.items.t = "missing" THEN Arr(<<>>) ELSE cat.items

(***************************************************************************)
(* Pure helpers of the script.                                             *)
(***************************************************************************)
IntroTail == <<" ","i","s"," ","a"," ","s","i","m","p","l","e",","," ","b","u","d","g","e","t","-","f","r","i","e","n","d","l","y"," ","r","e","c","i","p","e"," ","y","o","u","'","l","l"," ","l","o","v","e","."," ","Q","u","i","c","k"," ","t","o"," ","p","r","e","p","a","r","e"," ","a","n","d"," ","p","a","c","k","e","d"," ","w","i","t","h"," ","f","l","a","v","o","r",".">>
ExcerptLen == 140
SiteSuffix == <<" ","-"," ","P","l","a","t","e","U","p",".","p","r","o">>
LogoPath == <<".",".","/","i","m","a","g","e","s","/","l","o","g","o",".","p","n","g">>
H1Open == <<"<","h","1",">">>
H1Close == <<"<","/","h","1",">">>
DotHtml == <<".","h","t","m","l">>
ArticlesSlash == <<"a","r","t","i","c","l","e","s","/">>
SlashArticlesSlash == <<"/">> \o ArticlesSlash

\* buildRecipe: the introduction; the ingredient and step lists are the same for every title
buildRecipe(title) == [intro |-> title \o IntroTail]

\* Number.prototype.toString(36)
Base36Digits == Digits \o LowerLetters
RECURSIVE Base36(_)
Base36(n) == IF n < 36 THEN <<Base36Digits[n + 1]>>
             ELSE Base36(n \div 36) \o <<Base36Digits[(n % 36) + 1]>>

\* Math.random(): a number of [0, 1), written as the digits of its fraction in base 36
\* (0.5 is 0.i, 0.25 is 0.9, 0.1234550050009145 is 0.4fzx026d3yf, and 0 has no digit)
Half == <<"i">>
Quarter == <<"9">>
LongFraction == <<"4","f","z","x","0","2","6","d","3","y","f">>
\* the numbers a call of line 155 draws from, each call on its own
RandomNumbers == {Half, LongFraction}

\* Number.prototype.toString(36) of a number of [0, 1)
toString36(r) == IF r = <<>> THEN <<"0">> ELSE <<"0", ".">> \o r

\* String.prototype.slice(from, to), 0 <= from <= to
slice(s, from, to) ==
    IF from >= Len(s) THEN <<>> ELSE SubSeq(s, from + 1, IF Len(s) < to THEN Len(s) ELSE to)

\* line 155: Math.random().toString(36).slice(2,6)
randSuffix(r) == slice(toString36(r), 2, 6)

\* Date.now(): the clock has not moved since the latest reading, or it has ticked
Readings(latest) == {t \in {latest, latest + 1} : t <= MaxClock}

\* lines 154-163; idClock is Date.now() of line 155, tsClock that of line 162
makeMeta(title, slug, catName, domain, idClock, tsClock, rand) ==
    [id |-> Base36(idClock) \o randSuffix(rand),
     title |-> title,
     slug |-> slug,
     category |-> catName,
     thumb |-> <<>>,
     excerpt |-> slice(buildRecipe(title).intro, 0, ExcerptLen),
     canonical |-> IF domain # <<>> THEN domain \o SlashArticlesSlash \o slug \o DotHtml
                   ELSE SlashArticlesSlash \o slug \o DotHtml,
     ts |-> tsClock]

\* articleHTML: the places of the template that are interpolated; the rest is fixed markup
\* (the footer's year aside, which no record and no later step reads)
\* the template with the slug in the heading
articleHTMLSlugHeading(meta, recipe) ==
    [titleTag |-> meta.title \o SiteSuffix,
     description |-> IF meta.excerpt # <<>> THEN meta.excerpt ELSE meta.title,
     h1 |-> H1Open \o meta.slug \o H1Close,
     thumbSrc |-> IF meta.thumb # <<>> THEN meta.thumb ELSE LogoPath,
     thumbAlt |-> meta.title,
     intro |-> recipe.intro,
     canonical |-> meta.canonical]

articleHTML(meta, recipe) ==
    [titleTag |-> meta.title \o SiteSuffix,
     description |-> IF meta.excerpt # <<>> THEN meta.excerpt ELSE meta.title,
     h1 |-> H1Open \o meta.title \o H1Close,
     thumbSrc |-> IF meta.thumb # <<>> THEN meta.thumb ELSE LogoPath,
     thumbAlt |-> meta.title,
     intro |-> recipe.intro,
     canonical |-> meta.canonical]

\* path.join(OUT_ART_DIR, slug + '.html'), relative to OUT_ART_DIR
outPath(slug) == slug \o DotHtml

\* lines 172-180
makeRecord(meta) ==
    [t |-> "object", id |-> meta.id, slug |-> meta.slug, title |-> meta.title,
     category |-> meta.category, excerpt |-> meta.excerpt,
     path |-> ArticlesSlash \o meta.slug \o DotHtml, ts |-> meta.ts]

\* a null element of a stored list
NullRecord ==
    [t |-> "null", id |-> <<>>, slug |-> <<>>, title |-> <<>>, category |-> <<>>,
     excerpt |-> <<>>, path |-> <<>>, ts |-> 0]

(***************************************************************************)
(* The index file.                                                         *)
(***************************************************************************)
IndexAbsent == [kind |-> "absent", ts |-> 0, list |-> <<>>]
IndexGarbage == [kind |-> "unparsable", ts |-> 0, list |-> <<>>]   \* JSON.parse throws
IndexNull == [kind |-> "null", ts |-> 0, list |-> <<>>]            \* the text "null"
IndexNoList == [kind |-> "nolist", ts |-> 0, list |-> <<>>]        \* an object, list no array
IndexOk(ts, list) == [kind |-> "ok", ts |-> ts, list |-> list]

\* lines 130-138: the list the run starts from
\* a run that starts from an empty list whatever the index file holds
LoadedListNoHistory(idx) == <<>>
LoadedList(idx) == IF idx.kind = "ok" THEN idx.list ELSE <<>>

\* line 187: the object written to the index file
outObj(list, clock) == IndexOk(clock, list)

\* line 172: articlesList.push(record)
\* unshift in place of push
pushFront(list, rec) == <<rec>> \o list
push(list, rec) == Append(list, rec)

\* line 146: articlesList.find(a => a.slug === slug), which reads a.slug of every
\* element up to the first match
\* a lookup by title in place of the slug
RECURSIVE findByTitle(_, _, _)
findByTitle(list, slug, title) ==
    IF list = <<>> THEN "none"
    ELSE IF Head(list).t = "null" THEN "throws"
    ELSE IF Head(list).title = title THEN "found"
    ELSE findByTitle(Tail(list), slug, title)

RECURSIVE findBySlug(_, _, _)
findBySlug(list, slug, title) ==
    IF list = <<>> THEN "none"
    ELSE IF Head(list).t = "null" THEN "throws"
    ELSE IF Head(list).slug = slug THEN "found"
    ELSE findBySlug(Tail(list), slug, title)

\* a lookup that stops after the first element
findFirstOnly(list, slug, title) ==
    IF list = <<>> THEN "none"
    ELSE IF Head(list).t = "null" THEN "throws"
    ELSE IF Head(list).slug = slug THEN "found"
    ELSE "none"

find(list, slug, title) == findBySlug(list, slug, title)

(***************************************************************************)
(* The state before the first process.                                     *)
(***************************************************************************)
NoDirs == [data |-> FALSE, articles |-> FALSE]
AllDirs == [data |-> TRUE, articles |-> TRUE]
NoFiles == <<>>

\* a page and its record, left by an earlier process
OldTunaMeta == makeMeta(TunaWrap, slugify(TunaWrap), Quick, <<>>, 0, 0, Quarter)
OldTunaPage == articleHTML(OldTunaMeta, buildRecipe(TunaWrap))
OldTunaRecord == makeRecord(OldTunaMeta)
OldFiles == [f \in {outPath(slugify(TunaWrap))} |-> OldTunaPage]

Worlds ==
    {[dirs |-> NoDirs, index |-> IndexAbsent, files |-> NoFiles],
     [dirs |-> AllDirs, index |-> IndexAbsent, files |-> NoFiles],
     [dirs |-> AllDirs, index |-> IndexGarbage, files |-> OldFiles],
     [dirs |-> AllDirs, index |-> IndexNull, files |-> NoFiles],
     [dirs |-> AllDirs, index |-> IndexNoList, files |-> NoFiles],
     [dirs |-> AllDirs, index |-> IndexOk(0, <<OldTunaRecord, NullRecord>>), files |-> OldFiles]}

\* What a process has done to the output so far: the names of the article files it
\* created, the former content of those it overwrote, and the former index file.
NoFilesUndo == [created |-> {}, old |-> NoFiles]
NoIndexUndo == [kept |-> FALSE, val |-> IndexAbsent]
NothingWritten == indexUndo = NoIndexUndo /\ filesUndo = NoFilesUndo

Remember(undo, files, name) ==
    IF name \notin DOMAIN files THEN [undo EXCEPT !.created = @ \cup {name}]
    ELSE IF name \in undo.created \/ name \in DOMAIN undo.old THEN undo
    ELSE [undo EXCEPT !.old = [f \in (DOMAIN @) \cup {name} |->
                                  IF f = name THEN files[name] ELSE @[f]]]

RememberIndex(undo, idx) == IF undo.kept THEN undo ELSE [kept |-> TRUE, val |-> idx]

\* source.json, indexFile and articleFiles as they were when the process started
sourceAtStart == IF sourceCreated THEN SourceAbsent ELSE sourceFile
indexAtStart == IF indexUndo.kept THEN indexUndo.val ELSE indexFile
filesAtStart ==
    [f \in (DOMAIN articleFiles) \ filesUndo.created |->
        IF f \in DOMAIN filesUndo.old THEN filesUndo.old[f] ELSE articleFiles[f]]

NoProcess ==
    /\ src = NullCfg
    /\ articlesList = <<>>
    /\ ci = 0
    /\ ii = 0
    /\ log = <<>>
    /\ exitCode = -1
    /\ indexWrites = 0

Init ==
    /\ sourceFile \in SourceStates
    /\ \E w \in Worlds :
          /\ dirs = w.dirs
          /\ indexFile = w.index
          /\ articleFiles = w.files
          /\ dirsAtStart = w.dirs
    /\ NothingWritten
    /\ sourceCreated = FALSE
    /\ pc = "idle"
    /\ NoProcess
    /\ now = 0
    /\ runs = 0
    /\ prevDone = FALSE
    /\ probe = NoProbe

(***************************************************************************)
(* The script, statement by statement.                                     *)
(***************************************************************************)
Stopped == {"idle", "done", "fatal", "crashed"}

Say(msg, arg) == [msg |-> msg, arg |-> arg]

\* a process is started: node server/scripts/generateArticles.js
Begin ==
    /\ pc \in Stopped
    /\ runs < MaxRuns
    /\ runs' = runs + 1
    /\ pc' = "dirs"
    /\ src' = NullCfg
    /\ articlesList' = <<>>
    /\ ci' = 0
    /\ ii' = 0
    /\ log' = <<>>
    /\ exitCode' = -1
    /\ indexWrites' = 0
    /\ indexUndo' = NoIndexUndo
    /\ filesUndo' = NoFilesUndo
    /\ dirsAtStart' = dirs
    /\ sourceCreated' = FALSE
    /\ prevDone' = (pc = "done")
    /\ UNCHANGED <<sourceFile, indexFile, articleFiles, dirs, now, probe>>

\* between two processes somebody edits source.json (the file stays in place)
EditSource ==
    /\ pc \in Stopped
    /\ runs < MaxRuns
    /\ \E s \in SourceStates \ {SourceAbsent} :
          /\ s # sourceFile
          /\ sourceFile' = s
    /\ pc' = "idle"
    /\ src' = NullCfg
    /\ articlesList' = <<>>
    /\ ci' = 0
    /\ ii' = 0
    /\ log' = <<>>
    /\ exitCode' = -1
    /\ indexWrites' = 0
    /\ indexUndo' = NoIndexUndo
    /\ filesUndo' = NoFilesUndo
    /\ dirsAtStart' = dirs
    /\ sourceCreated' = FALSE
    /\ prevDone' = FALSE
    /\ UNCHANGED <<indexFile, articleFiles, dirs, now, runs, probe>>

\* lines 95-96
EnsureDirs ==
    /\ pc = "dirs"
    /\ dirs' = AllDirs
    /\ pc' = "source"
    /\ UNCHANGED <<sourceFile, indexFile, articleFiles, src, articlesList, ci, ii, log,
                   exitCode, now, runs, indexUndo, filesUndo, dirsAtStart,
                   sourceCreated, prevDone, indexWrites, probe>>

\* lines 98-117
CheckSource ==
    /\ pc = "source"
    /\ IF sourceFile.kind = "absent"
       THEN /\ sourceFile' = SourceJson(defaultSrc)
            /\ sourceCreated' = TRUE
            /\ log' = Append(log, Say("Created default source.json", <<>>))
       ELSE UNCHANGED <<sourceFile, sourceCreated, log>>
    /\ pc' = "parse"
    /\ UNCHANGED <<indexFile, articleFiles, dirs, src, articlesList, ci, ii,
                   exitCode, now, runs, indexUndo, filesUndo, dirsAtStart,
                   prevDone, indexWrites, probe>>

\* lines 119-128
ParseSource ==
    /\ pc = "parse"
    /\ LET r == parseSource(sourceFile) IN
          IF ~r.ok
          THEN /\ log' = Append(log, Say("Failed to parse source.json:", <<>>))
               /\ pc' = "fatal"
               /\ exitCode' = 1
               /\ src' = src
          ELSE IF r.val.t = "null"
          THEN \* src.domain of null: an uncaught TypeError
               /\ src' = r.val
               /\ pc' = "crashed"
               /\ exitCode' = 1
               /\ log' = log
          ELSE /\ src' = r.val
               /\ pc' = "index"
               /\ UNCHANGED <<exitCode, log>>
    /\ UNCHANGED <<sourceFile, indexFile, articleFiles, dirs, articlesList, ci, ii,
                   now, runs, indexUndo, filesUndo, dirsAtStart,
                   sourceCreated, prevDone, indexWrites, probe>>

\* lines 130-138
LoadIndex ==
    /\ pc = "index"
    /\ articlesList' = LoadedList(indexFile)
    /\ pc' = "loop"
    /\ ci' = 1
    /\ ii' = 0
    /\ UNCHANGED <<sourceFile, indexFile, articleFiles, dirs, src, log,
                   exitCode, now, runs, indexUndo, filesUndo, dirsAtStart,
                   sourceCreated, prevDone, indexWrites, probe>>

Cats == categoriesOf(src)
CurCat == Cats.v[ci]
CurItems == itemsOf(CurCat)
CurItem == CurItems.v[ii]

\* lines 141-143: the head of the outer loop, up to the head of the inner loop
NextCategory ==
    /\ pc = "loop"
    /\ ii = 0
    /\ IF Cats.t # "array"
       THEN \* for...of over a value that is not iterable
            /\ pc' = "crashed" /\ exitCode' = 1 /\ UNCHANGED <<ci, ii>>
       ELSE IF ci > Len(Cats.v)
       THEN /\ pc' = "write" /\ UNCHANGED <<exitCode, ci, ii>>
       ELSE IF CurCat.t = "null"
       THEN \* cat.name of null
            /\ pc' = "crashed" /\ exitCode' = 1 /\ UNCHANGED <<ci, ii>>
       ELSE IF CurItems.t # "array"
       THEN /\ pc' = "crashed" /\ exitCode' = 1 /\ UNCHANGED <<ci, ii>>
       ELSE /\ ii' = 1 /\ UNCHANGED <<pc, exitCode, ci>>
    /\ UNCHANGED <<sourceFile, indexFile, articleFiles, dirs, src, articlesList, log,
                   now, runs, indexUndo, filesUndo, dirsAtStart,
                   sourceCreated, prevDone, indexWrites, probe>>

\* the inner loop has run out of items
EndCategory ==
    /\ pc = "loop"
    /\ ii >= 1
    /\ ii > Len(CurItems.v)
    /\ ci' = ci + 1
    /\ ii' = 0
    /\ UNCHANGED <<sourceFile, indexFile, articleFiles, dirs, pc, src, articlesList, log,
                   exitCode, now, runs, indexUndo, filesUndo, dirsAtStart,
                   sourceCreated, prevDone, indexWrites, probe>>

AtItem == pc = "loop" /\ ii >= 1 /\ ii <= Len(CurItems.v)

\* lines 144-146 throwing: itemName.toString() of null, or a.slug of a null element
ItemThrows ==
    /\ AtItem
    /\ \/ CurItem.t = "null"
       \/ /\ CurItem.t # "null"
          /\ find(articlesList, slugify(CurItem.v), CurItem.v) = "throws"
    /\ pc' = "crashed"
    /\ exitCode' = 1
    /\ UNCHANGED <<sourceFile, indexFile, articleFiles, dirs, src, articlesList, ci, ii, log,
                   now, runs, indexUndo, filesUndo, dirsAtStart,
                   sourceCreated, prevDone, indexWrites, probe>>

\* lines 146-149
SkipItem ==
    /\ AtItem
    /\ CurItem.t # "null"
    /\ find(articlesList, slugify(CurItem.v), CurItem.v) = "found"
    /\ log' = Append(log, Say("Skipping existing:", slugify(CurItem.v)))
    /\ ii' = ii + 1
    /\ UNCHANGED <<sourceFile, indexFile, articleFiles, dirs, pc, src, articlesList, ci,
                   exitCode, now, runs, indexUndo, filesUndo, dirsAtStart,
                   sourceCreated, prevDone, indexWrites, probe>>

WriteFile(files, name, content) ==
    [f \in (DOMAIN files) \cup {name} |-> IF f = name THEN content ELSE files[f]]

\* the loop body with the index saved after every item
GenerateItemSavingIndex ==
    /\ AtItem
    /\ CurItem.t # "null"
    /\ find(articlesList, slugify(CurItem.v), CurItem.v) = "none"
    /\ \E rand \in RandomNumbers, idClock \in Readings(now) : \E tsClock \in Readings(idClock) :
          LET title == CurItem.v
              slug == slugify(title)
              recipe == buildRecipe(title)
              meta == makeMeta(title, slug, catNameOf(CurCat), src.domain, idClock, tsClock, rand)
          IN  /\ articleFiles' = WriteFile(articleFiles, outPath(slug), articleHTML(meta, recipe))
              /\ log' = Append(log, Say("Wrote:", outPath(slug)))
              /\ articlesList' = push(articlesList, makeRecord(meta))
              /\ indexFile' = outObj(push(articlesList, makeRecord(meta)), tsClock)
              /\ filesUndo' = Remember(filesUndo, articleFiles, outPath(slug))
              /\ now' = tsClock
    /\ indexUndo' = RememberIndex(indexUndo, indexFile)
    /\ indexWrites' = indexWrites + 1
    /\ ii' = ii + 1
    /\ UNCHANGED <<sourceFile, dirs, pc, src, ci,
                   exitCode, runs, dirsAtStart,
                   sourceCreated, prevDone, probe>>

\* lines 151-180
GenerateItem ==
    /\ AtItem
    /\ CurItem.t # "null"
    /\ find(articlesList, slugify(CurItem.v), CurItem.v) = "none"
    /\ \E rand \in RandomNumbers, idClock \in Readings(now) : \E tsClock \in Readings(idClock) :
          LET title == CurItem.v
              slug == slugify(title)
              recipe == buildRecipe(title)
              meta == makeMeta(title, slug, catNameOf(CurCat), src.domain, idClock, tsClock, rand)
          IN  /\ articleFiles' = WriteFile(articleFiles, outPath(slug), articleHTML(meta, recipe))
              /\ log' = Append(log, Say("Wrote:", outPath(slug)))
              /\ articlesList' = push(articlesList, makeRecord(meta))
              /\ filesUndo' = Remember(filesUndo, articleFiles, outPath(slug))
              /\ now' = tsClock
    /\ ii' = ii + 1
    /\ UNCHANGED <<sourceFile, indexFile, dirs, pc, src, ci,
                   exitCode, runs, indexUndo, dirsAtStart,
                   sourceCreated, prevDone, indexWrites, probe>>

\* lines 186-191
WriteIndex ==
    /\ pc = "write"
    /\ \E clock \in Readings(now) :
          /\ indexFile' = outObj(articlesList, clock)
          /\ now' = clock
    /\ indexUndo' = RememberIndex(indexUndo, indexFile)
    /\ indexWrites' = indexWrites + 1
    /\ log' = Append(Append(log, Say("Wrote JSON:", <<>>)), Say("Done.", <<>>))
    /\ pc' = "done"
    /\ exitCode' = 0
    /\ UNCHANGED <<sourceFile, articleFiles, dirs, src, articlesList, ci, ii,
                   runs, filesUndo, dirsAtStart,
                   sourceCreated, prevDone, probe>>

Next ==
    \/ Begin
    \/ EditSource
    \/ EnsureDirs
    \/ CheckSource
    \/ ParseSource
    \/ LoadIndex
    \/ NextCategory
    \/ EndCategory
    \/ ItemThrows
    \/ SkipItem
    \/ GenerateItem
    \/ WriteIndex

Spec == Init /\ [][Next]_vars

(***************************************************************************)
(* slugify on its own.                                                     *)
(***************************************************************************)
SlugInit ==
    /\ probe \in {[state |-> "given", title |-> t, slug |-> <<>>] : t \in ProbeTitles}
    /\ sourceFile = SourceAbsent
    /\ indexFile = IndexAbsent
    /\ articleFiles = NoFiles
    /\ dirs = NoDirs
    /\ pc = "idle"
    /\ NoProcess
    /\ now = 0
    /\ runs = 0
    /\ NothingWritten
    /\ dirsAtStart = NoDirs
    /\ sourceCreated = FALSE
    /\ prevDone = FALSE

ApplySlugify ==
    /\ probe.state = "given"
    /\ probe' = [state |-> "done", title |-> probe.title, slug |-> slugify(probe.title)]
    /\ UNCHANGED pipelineVars

SlugNext == ApplySlugify

SlugSpec == SlugInit /\ [][SlugNext]_vars

(***************************************************************************)
(* Vocabulary of the properties.                                           *)
(***************************************************************************)
IsPrefix(a, b) == Len(a) <= Len(b) /\ SubSeq(b, 1, Len(a)) = a
Contains(hay, needle) ==
    \E i \in 1..(Len(hay) - Len(needle) + 1) : SubSeq(hay, i, i + Len(needle) - 1) = needle

\* the list stored in an index file, if it stores one
StoredList(idx) == IF idx.kind = "ok" THEN idx.list ELSE <<>>
\* the positions of a list that hold a record
RecordAt(list) == {i \in 1..Len(list) : list[i].t = "object"}
SlugRecorded(list, slug) == \E i \in RecordAt(list) : list[i].slug = slug
NoSharedSlug(list) ==
    \A i, j \in RecordAt(list) : list[i].slug = list[j].slug => i = j
\* the file names the running process reported as written, and the slugs it skipped
WroteAt(l) == {i \in 1..Len(l) : l[i].msg = "Wrote:"}
WroteNames(l) == {l[i].arg : i \in WroteAt(l)}
SkippedAt(l) == {i \in 1..Len(l) : l[i].msg = "Skipping existing:"}
\* a process exists: it is running or has ended
InRun == pc # "idle"
Ended == pc \in {"done", "fatal", "crashed"}

(***************************************************************************)
(* C1.  Append-only index: when a run completes, the list it wrote to the  *)
(* index file has the list the index file stored before the run as an      *)
(* order-preserving prefix, every prior entry unchanged.                   *)
(***************************************************************************)
C1_AppendOnly ==
    pc = "done" =>
        /\ indexFile.kind = "ok"
        /\ IsPrefix(StoredList(indexAtStart), indexFile.list)

C1_Witness ==
    /\ pc = "done"
    /\ Len(StoredList(indexAtStart)) >= 1
    /\ Len(indexFile.list) > Len(StoredList(indexAtStart))

(***************************************************************************)
(* C2.  No two records of the list (in memory or in the index file) share  *)
(* a slug, and a process writes a file name at most once: a later title    *)
(* with the same slug is skipped.  This holds from every start of the      *)
(* model, the absent index among them: no index the first process finds    *)
(* stores two records with one slug.                                       *)
(***************************************************************************)
C2_UniqueSlugs ==
    /\ NoSharedSlug(StoredList(indexFile))
    /\ NoSharedSlug(articlesList)
    /\ \A i, j \in WroteAt(log) : log[i].arg = log[j].arg => i = j

C2_Witness ==
    /\ runs = 1
    /\ indexAtStart.kind = "absent"
    /\ pc = "done"
    /\ src = CfgDup
    /\ Cardinality(SkippedAt(log)) = 2
    /\ Cardinality({i \in RecordAt(indexFile.list) :
                      indexFile.list[i].slug = slugify(TunaWrap)}) = 1

(***************************************************************************)
(* C3.  Idempotence: a process that follows a completed one, with          *)
(* source.json not edited in between, completes too, writes no article     *)
(* file and leaves the list of the index as the first process left it.     *)
(***************************************************************************)
C3_Idempotent ==
    (prevDone /\ InRun) =>
        /\ pc \notin {"fatal", "crashed"}
        /\ articleFiles = filesAtStart
        /\ WroteNames(log) = {}
        /\ pc = "done" => /\ StoredList(indexFile) = StoredList(indexAtStart)
                          /\ articlesList = StoredList(indexAtStart)

C3_Witness ==
    /\ prevDone
    /\ pc = "done"
    /\ Len(indexFile.list) >= 2
    /\ Cardinality(SkippedAt(log)) >= 2

(***************************************************************************)
(* C4.  Every record of the index list has its page on disk: a file named  *)
(* <slug>.html in the article directory, the record's path being           *)
(* articles/<slug>.html, and the page's h1 heading contains the title.     *)
(***************************************************************************)
C4_RecordsHavePages ==
    \A i \in RecordAt(StoredList(indexFile)) :
        LET r == indexFile.list[i] IN
            /\ r.path = ArticlesSlash \o r.slug \o DotHtml
            /\ (r.slug \o DotHtml) \in DOMAIN articleFiles
            /\ Contains(articleFiles[r.slug \o DotHtml].h1, r.title)

C4_Witness ==
    /\ pc = "done"
    /\ \E i \in RecordAt(StoredList(indexFile)) :
          /\ indexFile.list[i].title = BeansAndPasta
          /\ indexFile.list[i].slug # indexFile.list[i].title

(***************************************************************************)
(* C5.  source.json exists and cannot be parsed.                           *)
(*                                                                         *)
(* As claimed: the process exits non-zero and nothing is written, the      *)
(* abort coming before any output is touched: the index file, the article  *)
(* files and the output directories are as they were before the process.   *)
(***************************************************************************)
UnparsableRun == InRun /\ sourceAtStart.kind = "unparsable"

C5_NothingTouched ==
    UnparsableRun =>
        /\ pc \in {"dirs", "source", "parse", "fatal"}
        /\ indexFile = indexAtStart
        /\ articleFiles = filesAtStart
        /\ Ended => exitCode = 1 /\ dirs = dirsAtStart

(***************************************************************************)
(* C5, amended.  The process exits non-zero, the index file is neither     *)
(* created nor modified and no article file is written; the two output     *)
(* directories, however, exist by the time of the abort.                   *)
(***************************************************************************)
C5_NoFileWritten ==
    UnparsableRun =>
        /\ pc \in {"dirs", "source", "parse", "fatal"}
        /\ Ended => exitCode = 1 /\ dirs = AllDirs
        /\ indexFile = indexAtStart
        /\ indexWrites = 0
        /\ articleFiles = filesAtStart
        /\ WroteNames(log) = {}

C5_Witness ==
    /\ UnparsableRun
    /\ pc = "fatal"
    /\ exitCode = 1
    /\ dirsAtStart = NoDirs
    /\ indexFile.kind = "absent"

(***************************************************************************)
(* C6.  Previously generated output.                                       *)
(*                                                                         *)
(* As claimed: an article file that exists before a run is neither written *)
(* again nor deleted by that run, and an item whose slug is already in the *)
(* accumulated list leaves every article file and the list unchanged.      *)
(***************************************************************************)
SkipStepFrame ==
    (/\ pc = "loop" /\ ii >= 1 /\ ii' = ii + 1
     /\ SlugRecorded(articlesList, slugify(CurItem.v)))
        => (articleFiles' = articleFiles /\ articlesList' = articlesList)

C6_ExistingFilesUntouched ==
    /\ [](InRun => \A f \in DOMAIN filesAtStart :
                      /\ f \in DOMAIN articleFiles
                      /\ articleFiles[f] = filesAtStart[f]
                      /\ f \notin WroteNames(log))
    /\ [][SkipStepFrame]_vars

\* a step that writes an article file: the directory changes, or the process reports a write
WriteStep ==
    \/ articleFiles' # articleFiles
    \/ runs' = runs /\ Cardinality(WroteAt(log')) > Cardinality(WroteAt(log))

(***************************************************************************)
(* C6, amended.  No run deletes an article file; an article file that      *)
(* exists before a run and whose slug has a record in the list the run     *)
(* loads from the index is not written again; a run writes a file only for *)
(* a slug that is not in the accumulated list; and an item whose slug is   *)
(* already in the accumulated list leaves every article file and the list  *)
(* unchanged.                                                              *)
(***************************************************************************)
WriteOnlyNewSlug ==
    WriteStep =>
        LET f == log'[Len(log')].arg IN
            /\ Len(log') = Len(log) + 1
            /\ log'[Len(log')].msg = "Wrote:"
            /\ f \in DOMAIN articleFiles'
            /\ \A g \in DOMAIN articleFiles : g \in DOMAIN articleFiles'
            /\ \A g \in DOMAIN articleFiles : g # f => articleFiles'[g] = articleFiles[g]
            /\ \A i \in RecordAt(articlesList) : articlesList[i].slug \o DotHtml # f

C6_RecordedFilesUntouched ==
    /\ [](InRun => \A f \in DOMAIN filesAtStart :
                      /\ f \in DOMAIN articleFiles
                      /\ (\E i \in RecordAt(StoredList(indexAtStart)) :
                             indexAtStart.list[i].slug \o DotHtml = f)
                            => /\ articleFiles[f] = filesAtStart[f]
                               /\ f \notin WroteNames(log))
    /\ [][SkipStepFrame]_vars
    /\ [][WriteOnlyNewSlug]_vars

C6_Witness ==
    /\ pc = "done"
    /\ Len(StoredList(indexAtStart)) >= 1
    /\ Cardinality(SkippedAt(log)) >= 1
    /\ Cardinality(WroteAt(log)) >= 1
    /\ DOMAIN filesAtStart # {}

(***************************************************************************)
(* C7.  source.json with an empty categories array.                        *)
(*                                                                         *)
(* As claimed: the run writes the index file with list: [], creates no     *)
(* article file and exits 0.                                               *)
(***************************************************************************)
EmptyCategoriesRun ==
    /\ InRun
    /\ sourceAtStart.kind = "json"
    /\ sourceAtStart.val.t = "object"
    /\ sourceAtStart.val.categories = Arr(<<>>)

C7_EmptyListWritten ==
    EmptyCategoriesRun =>
        /\ pc \notin {"fatal", "crashed"}
        /\ articleFiles = filesAtStart
        /\ pc = "done" => /\ exitCode = 0
                          /\ indexFile.kind = "ok"
                          /\ indexFile.list = <<>>

(***************************************************************************)
(* C7, amended.  The run writes the index file once, with the list the     *)
(* index file stored before the run (list: [] when the index file was      *)
(* absent, unparsable or stored no list array), creates no article file    *)
(* and exits 0.                                                            *)
(***************************************************************************)
C7_PriorListWritten ==
    EmptyCategoriesRun =>
        /\ pc \notin {"fatal", "crashed"}
        /\ articleFiles = filesAtStart
        /\ WroteNames(log) = {}
        /\ pc = "done" => /\ exitCode = 0
                          /\ indexWrites = 1
                          /\ indexFile.kind = "ok"
                          /\ indexFile.list = StoredList(indexAtStart)

C7_Witness ==
    /\ EmptyCategoriesRun
    /\ pc = "done"
    /\ Len(StoredList(indexAtStart)) >= 1
    /\ indexAtStart.list[1].t = "object"
    /\ indexFile.list = indexAtStart.list

(***************************************************************************)
(* C8.  As claimed: a process whose source.json is absent or parses never  *)
(* aborts: whatever the index file holds and whatever slugs repeat, it     *)
(* runs to completion and exits 0.                                         *)
(***************************************************************************)
C8_OnlyParseFailureIsFatal ==
    (InRun /\ sourceAtStart.kind # "unparsable") =>
        /\ pc \notin {"fatal", "crashed"}
        /\ Ended => exitCode = 0

(***************************************************************************)
(* C9.  The slug of a title, step by step as documented, over a class of   *)
(* word characters: lowercase; keep only word characters, whitespace and   *)
(* hyphens; trim; one hyphen for each run of whitespace; one hyphen for    *)
(* each run of hyphens.                                                    *)
(***************************************************************************)
\* the elements of s at the positions K, in order
Pick(s, K) ==
    [j \in 1..Cardinality(K) |-> s[CHOOSE i \in K : Cardinality({k \in K : k < i}) = j - 1]]

Lowered(s) == [i \in 1..Len(s) |-> LowerChar(s[i])]
Only(s, class) == Pick(s, {i \in 1..Len(s) : s[i] \in class})
Trimmed(s) ==
    LET solid == {i \in 1..Len(s) : s[i] \notin SpaceChars} IN
        Pick(s, {i \in 1..Len(s) : (\E a \in solid : a <= i) /\ (\E b \in solid : i <= b)})
OneHyphenPerRun(s, class) ==
    LET first == {i \in 1..Len(s) : s[i] \notin class \/ i = 1 \/ s[i - 1] \notin class}
        one == Pick(s, first)
    IN  [j \in 1..Len(one) |-> IF one[j] \in class THEN "-" ELSE one[j]]

DocumentedSlug(title, wordClass) ==
    OneHyphenPerRun(
        OneHyphenPerRun(Trimmed(Only(Lowered(title), wordClass \cup SpaceChars \cup {"-"})),
                        SpaceChars),
        {"-"})

\* every letter, digit and the underscore, as the words of the documentation have it
LettersDigitsUnderscore == WordChars \cup {"U+00E9", "U+00C9"}

CheapChickenRiceSlug == <<"c","h","e","a","p","-","c","h","i","c","k","e","n","-","r","i","c","e">>
BeansPastaSlug == <<"b","e","a","n","s","-","p","a","s","t","a">>

Examples ==
    /\ probe.title = CheapChickenRice => probe.slug = CheapChickenRiceSlug
    /\ probe.title = BeansAndPasta => probe.slug = BeansPastaSlug

\* C9 as claimed: characters that are letters, digits, underscore, whitespace or
\* hyphen are kept, whatever the alphabet of the letter.
C9_SlugAsDocumented ==
    probe.state = "done" =>
        /\ probe.slug = DocumentedSlug(probe.title, LettersDigitsUnderscore)
        /\ Examples

\* C9, amended: slugify is the documented function with "letter" and "digit" read as
\* ASCII letter and ASCII digit: every other character, a letter outside ASCII
\* included, is removed; the two documented examples hold.
C9_SlugAscii ==
    probe.state = "done" =>
        /\ probe.slug = DocumentedSlug(probe.title, WordChars)
        /\ Examples

C9_Witness ==
    /\ probe.state = "done"
    /\ probe.title = <<" ", "A", "U+00E9", "-">>
    /\ probe.slug = <<"a", "-">>

\* a step that writes the index file: its content changes, or a write of it is counted
IndexWriteStep == indexFile' # indexFile \/ indexWrites' > indexWrites

(***************************************************************************)
(* C10.  A process writes the index file at most once, after its last      *)
(* article file, from the list it accumulated; until then, and for good    *)
(* when the process aborts, the index file holds what it held when the     *)
(* process started.                                                        *)
(***************************************************************************)
C10_IndexWrittenLast ==
    /\ [](InRun =>
            /\ indexWrites <= 1
            /\ pc # "done" => (indexWrites = 0 /\ indexFile = indexAtStart)
            /\ pc = "done" => /\ indexWrites = 1
                              /\ indexFile.kind = "ok"
                              /\ indexFile.list = articlesList
                              /\ ci > Len(Cats.v))
    /\ [][articleFiles' # articleFiles => (indexWrites' = 0 /\ indexFile' = indexFile)]_vars
    /\ [][IndexWriteStep => (/\ pc = "write"
                             /\ pc' = "done"
                             /\ indexFile'.kind = "ok"
                             /\ indexFile'.list = articlesList)]_vars

C10_Witness ==
    /\ pc = "crashed"
    /\ WroteNames(log) # {}
    /\ indexAtStart.kind = "ok"
    /\ indexFile = indexAtStart
    /\ Len(articlesList) > Len(indexFile.list)

====
